---- MODULE Spec2Model ----
(***************************************************************************)
(* gitlab-merge-request-trigger: the webhook relay of src/main.go.         *)
(*                                                                         *)
(* One handler goroutine per delivered request (handlerWebhook), the       *)
(* GitLab instance it talks to through doJsonRequest, and the two deferred *)
(* side flows (cancelRedundantBuilds, setRemoveSourceBranchForMR_AndReport)*)
(* that run when the handler returns.  Every remote call is one atomic     *)
(* step: the request is answered by the GitLab state of that moment.       *)
(*                                                                         *)
(* Strings the code only compares are TLA+ strings; strings the code takes *)
(* apart (URL prefix, the comma-separated exception list, branch names)    *)
(* are sequences of one-character strings.                                 *)
(***************************************************************************)
EXTENDS Integers, Sequences, FiniteSets, TLC

\* ------------------------------------------------------------------ bounds

\* Requests delivered (in the unit runs: functions called) one after the
\* other in one run.
MaxDeliveries == 2
\* Remote calls of one goroutine that fail (or are answered undecodably)
\* in one run.
MaxFaults == 2

\* ------------------------------------------------------- net/http statuses

StatusOK == 200
StatusCreated == 201
StatusAccepted == 202
StatusNonAuthoritativeInfo == 203
StatusBadRequest == 400
StatusNotFound == 404
StatusMethodNotAllowed == 405
StatusUnsupportedMediaType == 415
StatusUnprocessableEntity == 422
StatusInternalServerError == 500

\* ------------------------------------------------------------ string tools

\* strings.HasPrefix
HasPrefix(s, prefix) ==
    /\ Len(prefix) <= Len(s)
    /\ SubSeq(s, 1, Len(prefix)) = prefix

\* strings.Split(s, sep) for a one-character separator: always at least one
\* element, the empty string included.
RECURSIVE Split(_, _)
Split(s, sep) ==
    IF \A i \in 1..Len(s) : s[i] # sep
    THEN <<s>>
    ELSE LET i == CHOOSE k \in 1..Len(s) :
                      s[k] = sep /\ \A j \in 1..(k - 1) : s[j] # sep
         IN  <<SubSeq(s, 1, i - 1)>> \o Split(SubSeq(s, i + 1, Len(s)), sep)

contains(arr, str) == \E i \in 1..Len(arr) : arr[i] = str

\* ------------------------------------------------- configuration (flags)

\* --url: the GitLab instance; the projects live under it.
GitlabURL == <<"g">>
ProjectURL == <<"g", "/", "a">>
ForkURL == <<"g", "/", "b">>
ForeignURL == <<"x", "/", "a">>

Feature == <<"f">>
Master == <<"m">>

\* the command lines tried: every combination of the two tokens and of --url
\* set or not (main refuses most), and for the combinations main accepts the
\* two policy flags
Flags ==
    [ triggerToken : {"", "static"},
      privateToken : {"", "private"},
      gitlabURL : {<<>>, GitlabURL},
      shouldTriggerMerged : {FALSE},
      removeSourceExceptions : {<<>>} ]
    \cup
    [ triggerToken : {""},
      privateToken : {"private"},
      gitlabURL : {GitlabURL},
      shouldTriggerMerged : BOOLEAN,
      removeSourceExceptions : {<<>>, <<"m", ",", "f">>} ]

\* mutant: the two tokens may be given together
main_BothTokens(f) ==
    /\ ~(f.triggerToken = "" /\ f.privateToken = "")
    /\ f.gitlabURL # <<>>

\* main: the two log.Fatal checks; TRUE when the process goes on to serve.
main(f) ==
    /\ ~ \/ (f.triggerToken = "" /\ f.privateToken = "")
         \/ (f.triggerToken # "" /\ f.privateToken # "")
    /\ f.gitlabURL # <<>>

\* ------------------------------------------------------ delivered requests

Actions == {"open", "reopen", "update", "close", "merge"}
States == {"opened", "merged"}
\* source and target project: the same project, a fork, a project of another
\* host, and a fork of another host
ProjectURLs == {<<ProjectURL, ProjectURL>>, <<ForkURL, ProjectURL>>,
                <<ForeignURL, ForeignURL>>, <<ForeignURL, ProjectURL>>}

\* objectAttributes, as json decodes it from the payload
Attributes(action, state, wip, urls) ==
    [ ID |-> 7, IID |-> 3,
      TargetBranch |-> Master, SourceBranch |-> Feature,
      SourceProjectID |-> 1,
      State |-> state,
      Source |-> [HTTPURL |-> urls[1]], Target |-> [HTTPURL |-> urls[2]],
      LastCommit |-> [ID |-> "c1"],
      Action |-> action, WorkInProgress |-> wip ]

\* the zero value of webhookRequest (what a failed decode leaves)
ZeroWebhook ==
    [ ObjectKind |-> "",
      Attributes |->
        [ ID |-> 0, IID |-> 0, TargetBranch |-> <<>>, SourceBranch |-> <<>>,
          SourceProjectID |-> 0, State |-> "",
          Source |-> [HTTPURL |-> <<>>], Target |-> [HTTPURL |-> <<>>],
          LastCommit |-> [ID |-> ""], Action |-> "",
          WorkInProgress |-> FALSE ] ]

MergeRequestEvents ==
    { [ObjectKind |-> "merge_request", Attributes |-> Attributes(a, s, w, u)] :
        a \in Actions, s \in States, w \in BOOLEAN, u \in ProjectURLs }

\* what reaches /webhook.json: a method, a body that decodes or not, and the
\* decoded payload
Requests ==
    { [Method |-> "GET", Decodes |-> TRUE, webhook |-> ZeroWebhook],
      [Method |-> "POST", Decodes |-> FALSE, webhook |-> ZeroWebhook],
      [Method |-> "POST", Decodes |-> TRUE,
       webhook |-> [ZeroWebhook EXCEPT !.ObjectKind = "push"]] }
    \cup { [Method |-> "POST", Decodes |-> TRUE, webhook |-> w] :
             w \in MergeRequestEvents }

NoRequest == [Method |-> "", Decodes |-> FALSE, webhook |-> ZeroWebhook]

\* ------------------------------------------------------------------- state

Procs == {"h1"}

VARIABLES
    flags,        \* the parsed command line, read-only after main
    glCommit,     \* GitLab: last_pipeline of the commit (0: null)
    glPipelines,  \* GitLab: pipeline id -> [ref, running, pending jobs]
    glTriggers,   \* GitLab: the project's triggers, as listed
    glMR,         \* GitLab: the merge request's flags
    pc,           \* each handler's position
    entry,        \* which function the goroutine was started in
    request,      \* the request a handler serves
    mr,           \* handlerWebhook's mr
    token,        \* getTriggerToken's result: [token, err]
    deferred,     \* the handler's defer stack, top first
    sweep,        \* cancelRedundantBuilds' locals
    calls,        \* per handler: remote calls made and responses written
    triggered,    \* per handler: the trigger-pipeline requests sent
    faults,       \* per handler: remote calls that failed so far
    deliveries,   \* requests received so far
    prev,         \* the pipeline an earlier delivery of the request created
    redelivery,   \* the request was delivered before, and the commit has prev
    chain,        \* pipelines created since, and with, prev
    raced         \* every handler was past the idempotency guard before
                  \* any of them had made its trigger call

remote == <<glCommit, glPipelines, glTriggers, glMR>>
locals == <<pc, entry, request, mr, token, deferred, sweep, calls, triggered,
            faults>>
history == <<deliveries, prev, redelivery, chain, raced>>
vars == <<flags, remote, locals, history>>

\* ------------------------------------------------------------ GitLab side

Pipeline(ref, running, pending) ==
    [ref |-> ref, running |-> running, pending |-> pending]

\* jobs carry project-wide ids; those of pipeline id start at id * 10
JobIDs(id, n) == { id * 10 + k : k \in 1..n }

InitPipelines ==
    { <<>>,
      <<Pipeline(Feature, TRUE, JobIDs(1, 2)),
        Pipeline(Feature, TRUE, JobIDs(2, 1))>> }

\* tokenResponse
Trigger(id, deletedAt, tok) ==
    [ID |-> id, DeletedAt |-> deletedAt, Token |-> tok]

InitTriggers ==
    { <<Trigger(1, "2017", "t1"), Trigger(2, "", "")>>,
      <<Trigger(1, "2017", "t1"), Trigger(2, "", "t2"), Trigger(3, "", "t3")>> }

RECURSIVE Ascending(_)
Ascending(S) ==
    IF S = {} THEN <<>>
    ELSE LET m == CHOOSE x \in S : \A y \in S : x <= y
         IN  <<m>> \o Ascending(S \ {m})

\* GET pipelines?ref=..&status=running&sort=asc
RunningPipelines(ref) ==
    Ascending({ i \in 1..Len(glPipelines) :
                  glPipelines[i].ref = ref /\ glPipelines[i].running })

\* GET pipelines/:id/jobs?scope[]=pending
PendingJobs(id) ==
    IF id \in 1..Len(glPipelines) THEN Ascending(glPipelines[id].pending)
    ELSE <<>>

\* ------------------------------------------------------------- handler side

\* doJsonRequest: the answers one call can get.  Without a private token the
\* call returns an error before anything is sent; otherwise it is answered
\* with a 2xx and a decodable body ("ok"), not answered with a 2xx ("fail":
\* transport error or another status, GitLab unchanged) or answered 2xx with
\* a body that does not decode ("garbled": GitLab has carried the request
\* out).  A garbled answer is told from a failed one only for the two calls
\* that create something, createToken and runTrigger.
doJsonRequest(p, call) ==
    IF flags.privateToken = "" THEN {"unsent"}
    ELSE {"ok"} \cup
         IF faults[p] >= MaxFaults THEN {}
         ELSE IF call \in {"createToken", "runTrigger"}
         THEN {"fail", "garbled"} ELSE {"fail"}

\* the request reached GitLab and was carried out
Effect(a) == a \in {"ok", "garbled"}

Fault(a) == IF a \in {"fail", "garbled"} THEN 1 ELSE 0

\* mutant: a call that fails is reported to the client, whoever makes it
Sent_Reported(log, kind, arg, a) ==
    IF a = "ok"
    THEN Append(log, [kind |-> kind, arg |-> arg, res |-> a, id |-> 0])
    ELSE Append(Append(log, [kind |-> kind, arg |-> arg, res |-> a,
                             id |-> 0]),
                [kind |-> "respond", arg |-> StatusInternalServerError,
                 res |-> kind, id |-> 0])

\* the call log with one call of doJsonRequest added ("unsent": it returned
\* before sending); arg is the id the call names or, for getCommit and
\* runTrigger, the pipeline id GitLab answers with
Sent(log, kind, arg, a) ==
    Append(log, [kind |-> kind, arg |-> arg, res |-> a, id |-> 0])

\* mutant: the response is written a second time
httpError_Twice(log, msg, id, code) ==
    Append(Append(log, [kind |-> "respond", arg |-> code, res |-> msg,
                        id |-> id]),
           [kind |-> "respond", arg |-> code, res |-> msg, id |-> id])

\* httpError: the status and message written to the ResponseWriter
httpError(log, msg, id, code) ==
    Append(log, [kind |-> "respond", arg |-> code, res |-> msg, id |-> id])

\* cancelRedundantBuilds' arguments and loop state; before is GitLab's
\* pipeline table as the sweep found it
NoSweep ==
    [ref |-> <<>>, exclude |-> 0, pipelines |-> <<>>, builds |-> <<>>,
     before |-> <<>>]
NoToken == [token |-> "", err |-> FALSE]
NoMR == [ForceRemoveSourceBranch |-> FALSE]

\* mutant: the sweep is started with no pipeline to leave out
DeferCancel_ExcludesNone(ref, exclude) ==
    [fn |-> "cancelRedundantBuilds", ref |-> ref, exclude |-> 0]

\* defer cancelRedundantBuilds(project, ref, exclude)
DeferCancel(ref, exclude) ==
    [fn |-> "cancelRedundantBuilds", ref |-> ref, exclude |-> exclude]

\* defer setRemoveSourceBranchForMR_AndReport(project, iid, sourceBranch)
DeferRemove(sourceBranch) ==
    [fn |-> "setRemoveSourceBranchForMR_AndReport", ref |-> sourceBranch,
     exclude |-> 0]

\* setRemoveSourceBranchForMR_AndReport, lines 141-142
isExceptionBranch(sourceBranch) ==
    contains(Split(flags.removeSourceExceptions, ","), sourceBranch)

\* What the goroutine does when the function returns: the deferred calls run,
\* last registered first, up to the next remote call.
RECURSIVE Unwind(_, _)
Unwind(stack, sw) ==
    IF stack = <<>>
    THEN [pc |-> "done", deferred |-> <<>>, sweep |-> sw]
    ELSE LET d == Head(stack)
         IN  IF d.fn = "cancelRedundantBuilds"
             THEN [pc |-> "getPipelines", deferred |-> Tail(stack),
                   sweep |-> [NoSweep EXCEPT !.ref = d.ref,
                                             !.exclude = d.exclude]]
             ELSE IF isExceptionBranch(d.ref)
             THEN Unwind(Tail(stack), sw)
             ELSE [pc |-> "setRemoveSourceBranchForMR",
                   deferred |-> Tail(stack), sweep |-> sw]

\* mutant: an unsupported object kind is reported with the status of an
\* undecodable body
checkRequest_KindAsDecode(req) ==
    IF req.Method # "POST"
    THEN [code |-> StatusMethodNotAllowed, msg |-> "method"]
    ELSE IF ~req.Decodes
    THEN [code |-> StatusUnsupportedMediaType, msg |-> "decode"]
    ELSE IF req.webhook.ObjectKind # "merge_request"
    THEN [code |-> StatusUnsupportedMediaType, msg |-> "kind"]
    ELSE [code |-> 0, msg |-> ""]

\* handlerWebhook, lines 279-294: 0 when the request goes on to the lookup
checkRequest(req) ==
    IF req.Method # "POST"
    THEN [code |-> StatusMethodNotAllowed, msg |-> "method"]
    ELSE IF ~req.Decodes
    THEN [code |-> StatusUnsupportedMediaType, msg |-> "decode"]
    ELSE IF req.webhook.ObjectKind # "merge_request"
    THEN [code |-> StatusUnprocessableEntity, msg |-> "kind"]
    ELSE [code |-> 0, msg |-> ""]

\* line 315
underGitlab(at) == HasPrefix(at.Source.HTTPURL, flags.gitlabURL)

\* mutant: the fork check is dropped
isFork_Never(at) == FALSE

\* line 320
isFork(at) == at.Source.HTTPURL # at.Target.HTTPURL

\* mutant: the merge request's force_remove_source_branch is not consulted
removesSourceBranch_Unasked(at, m) == at.Action = "open"

\* line 325
removesSourceBranch(at, m) ==
    at.Action = "open" /\ m.ForceRemoveSourceBranch # TRUE

\* line 329
otherAction(at) ==
    at.Action # "open" /\ at.Action # "reopen" /\ at.Action # "update"

\* mutant: --trigger-merged is not consulted
ignoredAction_FlagIgnored(at) ==
    IF otherAction(at) /\ at.State = "merged" THEN "merged"
    ELSE IF otherAction(at) THEN "action"
    ELSE ""

\* mutant: only merged events are held back by the action/state rule
ignoredAction_OnlyMerged(at) ==
    IF otherAction(at) /\ at.State = "merged" /\ ~flags.shouldTriggerMerged
    THEN "merged"
    ELSE ""

\* lines 329-339: the action/state rule; "" when the event passes it
ignoredAction(at) ==
    IF otherAction(at) /\ at.State = "merged" /\ ~flags.shouldTriggerMerged
    THEN "merged"
    ELSE IF otherAction(at) /\ at.State # "merged"
    THEN "action"
    ELSE ""

\* mutant: the work-in-progress check is dropped
isWorkInProgress_Never(at) == FALSE

\* line 341
isWorkInProgress(at) == at.WorkInProgress

\* mutant: the remove-source-branch update is deferred before the
\* platform-URL check and the fork check
filterEvent_DefersEarly(at, m) ==
    LET stack == IF removesSourceBranch(at, m)
                 THEN <<DeferRemove(at.SourceBranch)>> ELSE <<>>
    IN  IF ~underGitlab(at)
        THEN [code |-> StatusNotFound, msg |-> "prefix", deferred |-> stack]
        ELSE IF isFork(at)
        THEN [code |-> StatusBadRequest, msg |-> "fork", deferred |-> stack]
        ELSE IF ignoredAction(at) # ""
        THEN [code |-> StatusNonAuthoritativeInfo, msg |-> ignoredAction(at),
              deferred |-> stack]
        ELSE IF isWorkInProgress(at)
        THEN [code |-> StatusAccepted, msg |-> "wip", deferred |-> stack]
        ELSE [code |-> 0, msg |-> "", deferred |-> stack]

\* mutant: the action/state rule and the work-in-progress check come before
\* the platform-URL check and the fork check
filterEvent_ActionFirst(at, m) ==
    LET stack == IF removesSourceBranch(at, m)
                 THEN <<DeferRemove(at.SourceBranch)>> ELSE <<>>
    IN  IF ignoredAction(at) # ""
        THEN [code |-> StatusNonAuthoritativeInfo, msg |-> ignoredAction(at),
              deferred |-> stack]
        ELSE IF isWorkInProgress(at)
        THEN [code |-> StatusAccepted, msg |-> "wip", deferred |-> stack]
        ELSE IF ~underGitlab(at)
        THEN [code |-> StatusNotFound, msg |-> "prefix", deferred |-> <<>>]
        ELSE IF isFork(at)
        THEN [code |-> StatusBadRequest, msg |-> "fork", deferred |-> <<>>]
        ELSE [code |-> 0, msg |-> "", deferred |-> stack]

\* handlerWebhook, lines 315-344, once the merge request m is fetched: the
\* status written (0: none, the event goes on to the commit lookup) and the
\* defer stack at that point.
filterEvent(at, m) ==
    LET stack == IF removesSourceBranch(at, m)
                 THEN <<DeferRemove(at.SourceBranch)>> ELSE <<>>
    IN  IF ~underGitlab(at)
        THEN [code |-> StatusNotFound, msg |-> "prefix", deferred |-> <<>>]
        ELSE IF isFork(at)
        THEN [code |-> StatusBadRequest, msg |-> "fork", deferred |-> <<>>]
        ELSE IF ignoredAction(at) # ""
        THEN [code |-> StatusNonAuthoritativeInfo, msg |-> ignoredAction(at),
              deferred |-> stack]
        ELSE IF isWorkInProgress(at)
        THEN [code |-> StatusAccepted, msg |-> "wip", deferred |-> stack]
        ELSE [code |-> 0, msg |-> "", deferred |-> stack]

\* mutant: a deleted trigger's token is taken too
RECURSIVE firstUsable_Deleted(_)
firstUsable_Deleted(tokens) ==
    IF tokens = <<>> THEN ""
    ELSE IF Head(tokens).Token = ""
    THEN firstUsable_Deleted(Tail(tokens))
    ELSE Head(tokens).Token

\* getTriggerToken, lines 183-189: the first listed trigger that is not
\* deleted and has a token ("" when there is none)
RECURSIVE firstUsable(_)
firstUsable(tokens) ==
    IF tokens = <<>> THEN ""
    ELSE IF Head(tokens).DeletedAt # "" \/ Head(tokens).Token = ""
    THEN firstUsable(Tail(tokens))
    ELSE Head(tokens).Token

\* mutant: the pipeline always runs on the source branch
pipelineBranch_AlwaysSource(at) == at.SourceBranch

\* mutant: the pipeline always runs on the target branch
pipelineBranch_AlwaysTarget(at) == at.TargetBranch

\* runTrigger, lines 203-207
pipelineBranch(at) ==
    IF at.State = "merged" THEN at.TargetBranch ELSE at.SourceBranch

\* mutant: the sweep is run on the ref the pipeline is triggered on
sweepRef_Triggered(at) == pipelineBranch(at)

\* handlerWebhook, lines 354 and 372: the ref handed to cancelRedundantBuilds
sweepRef(at) == at.SourceBranch

\* mutant: MR_ID and MR_IID take each other's value
triggerVariables_SwapsIds(at) ==
    [ CI_MERGE_REQUEST |-> "true",
      MR_SOURCE_BRANCH |-> at.SourceBranch,
      MR_TARGET_BRANCH |-> at.TargetBranch,
      MR_ID |-> at.IID,
      MR_IID |-> at.ID,
      MR_STATE |-> at.State ]

\* runTrigger, lines 209-226: the variables[...] of the request URL
triggerVariables(at) ==
    [ CI_MERGE_REQUEST |-> "true",
      MR_SOURCE_BRANCH |-> at.SourceBranch,
      MR_TARGET_BRANCH |-> at.TargetBranch,
      MR_ID |-> at.ID,
      MR_IID |-> at.IID,
      MR_STATE |-> at.State ]

\* mutant: the excluded pipeline is swept like the others
skipExcluded_None(ps, exclude) == ps

\* cancelRedundantBuilds, lines 255-258: the pipelines still to visit, the
\* excluded one skipped
RECURSIVE skipExcluded(_, _)
skipExcluded(ps, exclude) ==
    IF ps = <<>> THEN <<>>
    ELSE IF Head(ps) = exclude THEN skipExcluded(Tail(ps), exclude)
    ELSE ps

\* -------------------------------------------------------------------- Init

Init ==
    /\ flags \in { f \in Flags : main(f) }
    /\ glPipelines \in InitPipelines
    /\ glCommit \in 0..Len(glPipelines)
    /\ glTriggers \in InitTriggers
    /\ glMR \in [ForceRemoveSourceBranch : BOOLEAN]
    /\ pc = [p \in Procs |-> "idle"]
    /\ entry = [p \in Procs |-> ""]
    /\ request = [p \in Procs |-> NoRequest]
    /\ mr = [p \in Procs |-> NoMR]
    /\ token = [p \in Procs |-> NoToken]
    /\ deferred = [p \in Procs |-> <<>>]
    /\ sweep = [p \in Procs |-> NoSweep]
    /\ calls = [p \in Procs |-> <<>>]
    /\ triggered = [p \in Procs |-> <<>>]
    /\ faults = [p \in Procs |-> 0]
    /\ deliveries = 0
    /\ prev = 0
    /\ redelivery = [p \in Procs |-> FALSE]
    /\ chain = 0
    /\ raced = FALSE

\* ----------------------------------------------------------------- actions

\* The function returns with call log `log` and defer stack `stack`.
Return(p, log, stack) ==
    LET u == Unwind(stack, sweep[p])
    IN  /\ pc' = [pc EXCEPT ![p] = u.pc]
        /\ deferred' = [deferred EXCEPT ![p] = u.deferred]
        /\ sweep' = [sweep EXCEPT ![p] = u.sweep]
        /\ calls' = [calls EXCEPT ![p] = log]

\* The function goes on to its next remote call.
Goto(p, log, next) ==
    /\ pc' = [pc EXCEPT ![p] = next]
    /\ calls' = [calls EXCEPT ![p] = log]
    /\ UNCHANGED <<deferred, sweep>>

\* handlerWebhook, lines 278-294: the request is checked.
Deliver(p, req) ==
    /\ deliveries < MaxDeliveries
    /\ deliveries' = deliveries + 1
    /\ LET again == prev # 0 /\ glCommit = prev
       IN  /\ redelivery' = [redelivery EXCEPT ![p] = again]
           /\ prev' = IF again THEN prev ELSE 0
           /\ chain' = IF again THEN chain ELSE 0
    /\ raced' = FALSE
    /\ entry' = [entry EXCEPT ![p] = "handlerWebhook"]
    /\ request' = [request EXCEPT ![p] = req]
    /\ mr' = [mr EXCEPT ![p] = NoMR]
    /\ token' = [token EXCEPT ![p] = NoToken]
    /\ triggered' = [triggered EXCEPT ![p] = <<>>]
    /\ LET c == checkRequest(req)
       IN  IF c.code # 0
           THEN /\ pc' = [pc EXCEPT ![p] = "done"]
                /\ calls' = [calls EXCEPT ![p] =
                                httpError(<<>>, c.msg, 0, c.code)]
           ELSE /\ pc' = [pc EXCEPT ![p] = "getMergeRequest"]
                /\ calls' = [calls EXCEPT ![p] = <<>>]
    /\ deferred' = [deferred EXCEPT ![p] = <<>>]
    /\ sweep' = [sweep EXCEPT ![p] = NoSweep]
    /\ UNCHANGED <<flags, remote, faults>>

\* A request arrives at /webhook.json.
Receive(p, req) ==
    /\ pc[p] = "idle"
    /\ Deliver(p, req)

\* The request that was answered is delivered again (GitLab's "retrigger"
\* of a webhook), after the handler has returned.
Redeliver(p) ==
    /\ pc[p] = "done"
    /\ entry[p] = "handlerWebhook"
    /\ Deliver(p, request[p])

\* mutant: the error of the merge-request lookup is not looked at
mergeRequestLookupFailed_Ignored(a) == FALSE

\* handlerWebhook, line 297: err != nil after getMergeRequest
mergeRequestLookupFailed(a) == a # "ok"

\* handlerWebhook, lines 296-344: the merge-request lookup and the filter.
GetMergeRequest(p) ==
    /\ pc[p] = "getMergeRequest"
    /\ \E a \in doJsonRequest(p, "getMergeRequest") :
         LET at == request[p].webhook.Attributes
             log == Sent(calls[p], "getMergeRequest", at.IID, a)
             f == filterEvent(at, glMR)
         IN  /\ faults' = [faults EXCEPT ![p] = @ + Fault(a)]
             /\ IF mergeRequestLookupFailed(a)
                THEN /\ Return(p, httpError(log, "mr", 0,
                                            StatusInternalServerError), <<>>)
                     /\ UNCHANGED mr
                ELSE /\ mr' = [mr EXCEPT ![p] = glMR]
                     /\ IF f.code # 0
                        THEN Return(p, httpError(log, f.msg, 0, f.code),
                                    f.deferred)
                        ELSE /\ pc' = [pc EXCEPT ![p] = "getCommit"]
                             /\ deferred' = [deferred EXCEPT ![p] = f.deferred]
                             /\ calls' = [calls EXCEPT ![p] = log]
                             /\ UNCHANGED sweep
    /\ UNCHANGED <<flags, remote, entry, request, token, triggered, history>>

\* mutant: the idempotency guard sees a pipeline on every commit
hasPipeline_Always(commit) == TRUE

\* mutant: the idempotency guard never sees a pipeline
hasPipeline_Never(commit) == FALSE

\* line 351
hasPipeline(commit) == commit.LastPipeline # 0

\* getTriggerToken, line 178
usesStaticToken == flags.triggerToken # ""

\* getTriggerToken returns tok to its caller: handlerWebhook goes on to the
\* trigger call, lines 358-364; called on its own, the goroutine is done.
TokenFound(p, log, tok, caller) ==
    /\ token' = [token EXCEPT ![p] = [token |-> tok, err |-> FALSE]]
    /\ Goto(p, log, IF caller = "handlerWebhook" THEN "runTrigger"
                    ELSE "done")

\* getTriggerToken, lines 177-182: the static token, or on to the listing
TokenStart(p, log, caller) ==
    IF usesStaticToken
    THEN TokenFound(p, log, flags.triggerToken, caller)
    ELSE /\ Goto(p, log, "listTokens")
         /\ token' = [token EXCEPT ![p] = NoToken]

\* handler q is between the idempotency guard, which found no pipeline, and
\* its trigger call
pastGuard(q) == pc[q] \in {"listTokens", "createToken", "runTrigger"}

\* mutant: the error of the commit lookup is not looked at
commitLookupFailed_Ignored(a) == FALSE

\* handlerWebhook, line 347: err != nil after getCommit
commitLookupFailed(a) == a # "ok"

\* handlerWebhook, lines 346-358: the commit lookup, the idempotency guard
\* and the entry into getTriggerToken.
GetCommit(p) ==
    /\ pc[p] = "getCommit"
    /\ \E a \in doJsonRequest(p, "getCommit") :
         LET at == request[p].webhook.Attributes
             commit == [LastPipeline |-> glCommit]
             log == Sent(calls[p], "getCommit",
                         IF a = "ok" THEN commit.LastPipeline ELSE 0, a)
         IN  /\ faults' = [faults EXCEPT ![p] = @ + Fault(a)]
             /\ IF commitLookupFailed(a)
                THEN /\ Return(p, httpError(log, "commit", 0,
                                            StatusInternalServerError),
                               deferred[p])
                     /\ UNCHANGED token
                ELSE IF hasPipeline(commit)
                THEN /\ Return(p, httpError(log, "exists",
                                            commit.LastPipeline, StatusOK),
                               <<DeferCancel(sweepRef(at),
                                             commit.LastPipeline)>>
                                 \o deferred[p])
                     /\ UNCHANGED token
                ELSE TokenStart(p, log, "handlerWebhook")
             /\ raced' = \/ raced
                          \/ /\ ~commitLookupFailed(a) /\ ~hasPipeline(commit)
                             /\ \A q \in DOMAIN pc :
                                  /\ q # p => pastGuard(q)
                                  /\ \A i \in DOMAIN calls[q] :
                                       calls[q][i].kind # "runTrigger"
    /\ UNCHANGED <<flags, remote, entry, request, mr, triggered, deliveries,
                   prev, redelivery, chain>>

\* getTriggerToken, lines 182-190: list the triggers and take the first
\* usable one.
ListTokens(p) ==
    /\ pc[p] = "listTokens"
    /\ \E a \in doJsonRequest(p, "listTokens") :
         LET log == Sent(calls[p], "listTokens", 0, a)
             tokens == IF a = "ok" THEN glTriggers ELSE <<>>
         IN  /\ faults' = [faults EXCEPT ![p] = @ + Fault(a)]
             /\ IF a = "ok" /\ firstUsable(tokens) # ""
                THEN TokenFound(p, log, firstUsable(tokens), entry[p])
                ELSE /\ Goto(p, log, "createToken")
                     /\ UNCHANGED token
    /\ UNCHANGED <<flags, remote, entry, request, mr, triggered, history>>

\* the token of a trigger GitLab creates
CreatedToken == "auto"

\* mutant: the error of the create call is not looked at
createTokenFailed_Ignored(a) == FALSE

\* getTriggerToken, line 193: err != nil after createToken
createTokenFailed(a) == a # "ok"

\* getTriggerToken, lines 192-197, and handlerWebhook, lines 359-362.
CreateToken(p) ==
    /\ pc[p] = "createToken"
    /\ \E a \in doJsonRequest(p, "createToken") :
         LET log == Sent(calls[p], "createToken", 0, a)
         IN  /\ faults' = [faults EXCEPT ![p] = @ + Fault(a)]
             /\ glTriggers' =
                  IF Effect(a)
                  THEN Append(glTriggers,
                              Trigger(Len(glTriggers) + 1, "", CreatedToken))
                  ELSE glTriggers
             /\ IF ~createTokenFailed(a)
                THEN TokenFound(p, log, CreatedToken, entry[p])
                ELSE /\ token' = [token EXCEPT ![p] =
                                     [token |-> "", err |-> TRUE]]
                     /\ IF entry[p] = "handlerWebhook"
                        THEN Return(p, httpError(log, "token", 0,
                                                 StatusInternalServerError),
                                    deferred[p])
                        ELSE Goto(p, log, "done")
    /\ UNCHANGED <<flags, glCommit, glPipelines, glMR, entry, request, mr,
                   triggered, history>>

\* the pending jobs GitLab gives a pipeline it creates
NewPipelineJobs == 1

\* mutant: the error of the trigger call is not looked at
triggerFailed_Ignored(a) == FALSE

\* handlerWebhook, line 365: err != nil after runTrigger
triggerFailed(a) == a # "ok"

\* runTrigger, lines 200-229, and handlerWebhook, lines 364-373.  GitLab
\* creates the pipeline on the ref; whether the event's last commit is the
\* one the pipeline runs on (and so gets it as last_pipeline), and whether a
\* runner has taken a first job of it by the time anyone lists the running
\* pipelines, is GitLab's.
RunTrigger(p) ==
    /\ pc[p] = "runTrigger"
    /\ \E a \in doJsonRequest(p, "runTrigger"), assoc \in BOOLEAN,
          running \in BOOLEAN :
         LET at == request[p].webhook.Attributes
             id == Len(glPipelines) + 1
             log == Sent(calls[p], "runTrigger",
                         IF Effect(a) THEN id ELSE 0, a)
         IN  /\ assoc => Effect(a)
             /\ ~running => Effect(a)
             /\ faults' = [faults EXCEPT ![p] = @ + Fault(a)]
             /\ triggered' =
                  IF a = "unsent" THEN triggered
                  ELSE [triggered EXCEPT ![p] =
                          Append(@, [ref |-> pipelineBranch(at),
                                     token |-> token[p].token,
                                     variables |-> triggerVariables(at)])]
             /\ IF Effect(a)
                THEN /\ glPipelines' =
                          Append(glPipelines,
                                 Pipeline(pipelineBranch(at), running,
                                          JobIDs(id, NewPipelineJobs)))
                     /\ glCommit' = IF assoc THEN id ELSE glCommit
                     /\ prev' = IF redelivery[p] THEN prev ELSE id
                     /\ chain' = chain + 1
                ELSE UNCHANGED <<glPipelines, glCommit, prev, chain>>
             /\ IF ~triggerFailed(a)
                THEN Return(p, httpError(log, "created", id, StatusCreated),
                            <<DeferCancel(sweepRef(at), id)>>
                              \o deferred[p])
                ELSE Return(p, httpError(log, "trigger", 0,
                                         StatusInternalServerError),
                            deferred[p])
    /\ UNCHANGED <<flags, glTriggers, glMR, entry, request, mr, token,
                   deliveries, redelivery, raced>>

\* cancelRedundantBuilds goes on with the pipelines `rest`, or returns.
SweepOn(p, log, rest, before) ==
    IF rest = <<>>
    THEN LET u == Unwind(deferred[p],
                         [sweep[p] EXCEPT !.pipelines = <<>>, !.builds = <<>>,
                                          !.before = before])
         IN  /\ pc' = [pc EXCEPT ![p] = u.pc]
             /\ deferred' = [deferred EXCEPT ![p] = u.deferred]
             /\ sweep' = [sweep EXCEPT ![p] = u.sweep]
             /\ calls' = [calls EXCEPT ![p] = log]
    ELSE /\ pc' = [pc EXCEPT ![p] = "getPendingBuilds"]
         /\ sweep' = [sweep EXCEPT ![p].pipelines = rest, ![p].builds = <<>>,
                                   ![p].before = before]
         /\ calls' = [calls EXCEPT ![p] = log]
         /\ UNCHANGED deferred

\* cancelRedundantBuilds, lines 250-258
GetPipelines(p) ==
    /\ pc[p] = "getPipelines"
    /\ \E a \in doJsonRequest(p, "getPipelines") :
         LET log == Sent(calls[p], "getPipelines", 0, a)
             pipelines == IF a = "ok" THEN RunningPipelines(sweep[p].ref)
                          ELSE <<>>
         IN  /\ faults' = [faults EXCEPT ![p] = @ + Fault(a)]
             /\ SweepOn(p, log, skipExcluded(pipelines, sweep[p].exclude),
                        glPipelines)
    /\ UNCHANGED <<flags, remote, entry, request, mr, token, triggered,
                   history>>

\* cancelRedundantBuilds, lines 259-263
GetPendingBuilds(p) ==
    /\ pc[p] = "getPendingBuilds"
    /\ \E a \in doJsonRequest(p, "getPendingBuilds") :
         LET cur == Head(sweep[p].pipelines)
             log == Sent(calls[p], "getPendingBuilds", cur, a)
             builds == IF a = "ok" THEN PendingJobs(cur) ELSE <<>>
         IN  /\ faults' = [faults EXCEPT ![p] = @ + Fault(a)]
             /\ IF builds = <<>>
                THEN SweepOn(p, log,
                             skipExcluded(Tail(sweep[p].pipelines),
                                          sweep[p].exclude),
                             sweep[p].before)
                ELSE /\ pc' = [pc EXCEPT ![p] = "cancelBuild"]
                     /\ sweep' = [sweep EXCEPT ![p].builds = builds]
                     /\ calls' = [calls EXCEPT ![p] = log]
                     /\ UNCHANGED deferred
    /\ UNCHANGED <<flags, remote, entry, request, mr, token, triggered,
                   history>>

\* POST jobs/:id/cancel: the job is no longer pending
Cancelled(id) ==
    [ i \in 1..Len(glPipelines) |->
        [glPipelines[i] EXCEPT !.pending = @ \ {id}] ]

\* mutant: the first cancel call that fails ends the loop over the jobs
remainingBuilds_StopOnError(builds, a) ==
    IF a = "ok" THEN Tail(builds) ELSE <<>>

\* cancelRedundantBuilds, lines 263-269: the jobs left once one cancel call
\* is answered with a; its error is logged only
remainingBuilds(builds, a) == Tail(builds)

\* cancelRedundantBuilds, lines 263-269
CancelBuild(p) ==
    /\ pc[p] = "cancelBuild"
    /\ \E a \in doJsonRequest(p, "cancelBuild") :
         LET b == Head(sweep[p].builds)
             log == Sent(calls[p], "cancelBuild", b, a)
         IN  /\ faults' = [faults EXCEPT ![p] = @ + Fault(a)]
             /\ glPipelines' = IF Effect(a) THEN Cancelled(b) ELSE glPipelines
             /\ IF remainingBuilds(sweep[p].builds, a) = <<>>
                THEN SweepOn(p, log,
                             skipExcluded(Tail(sweep[p].pipelines),
                                          sweep[p].exclude),
                             sweep[p].before)
                ELSE /\ sweep' = [sweep EXCEPT ![p].builds =
                                                  remainingBuilds(@, a)]
                     /\ calls' = [calls EXCEPT ![p] = log]
                     /\ UNCHANGED <<pc, deferred>>
    /\ UNCHANGED <<flags, glCommit, glTriggers, glMR, entry, request, mr,
                   token, triggered, history>>

\* setRemoveSourceBranchForMR_AndReport, lines 143-151: the PUT with
\* remove_source_branch=true
SetRemoveSourceBranchForMR(p) ==
    /\ pc[p] = "setRemoveSourceBranchForMR"
    /\ \E a \in doJsonRequest(p, "setRemoveSourceBranchForMR") :
         LET at == request[p].webhook.Attributes
             log == Sent(calls[p], "setRemoveSourceBranchForMR", at.IID, a)
         IN  /\ faults' = [faults EXCEPT ![p] = @ + Fault(a)]
             /\ glMR' = IF Effect(a)
                        THEN [glMR EXCEPT !.ForceRemoveSourceBranch = TRUE]
                        ELSE glMR
             /\ Return(p, log, deferred[p])
    /\ UNCHANGED <<flags, glCommit, glPipelines, glTriggers, entry, request,
                   mr, token, triggered, history>>

\* ------------------------------------------------- the functions on their own

\* GitLab states for the calls of single functions
UnitPipelines ==
    InitPipelines \cup
    { <<Pipeline(Feature, TRUE, JobIDs(1, 2))>>,
      <<Pipeline(Master, TRUE, JobIDs(1, 1)),
        Pipeline(Feature, FALSE, JobIDs(2, 1)),
        Pipeline(Feature, TRUE, JobIDs(3, 2))>> }

UnitTriggers ==
    InitTriggers \cup
    { <<>>,
      <<Trigger(1, "", "t1")>>,
      <<Trigger(1, "", ""), Trigger(2, "2017", "t2")>> }

InitUnit ==
    /\ flags \in { f \in Flags : main(f) }
    /\ glPipelines \in UnitPipelines
    /\ glCommit = 0
    /\ glTriggers \in UnitTriggers
    /\ glMR = NoMR
    /\ pc = [p \in Procs |-> "idle"]
    /\ entry = [p \in Procs |-> ""]
    /\ request = [p \in Procs |-> NoRequest]
    /\ mr = [p \in Procs |-> NoMR]
    /\ token = [p \in Procs |-> NoToken]
    /\ deferred = [p \in Procs |-> <<>>]
    /\ sweep = [p \in Procs |-> NoSweep]
    /\ calls = [p \in Procs |-> <<>>]
    /\ triggered = [p \in Procs |-> <<>>]
    /\ faults = [p \in Procs |-> 0]
    /\ deliveries = 0
    /\ prev = 0
    /\ redelivery = [p \in Procs |-> FALSE]
    /\ chain = 0
    /\ raced = FALSE

\* getTriggerToken(projectID), called on its own
CallGetTriggerToken(p) ==
    /\ pc[p] \in {"idle", "done"}
    /\ deliveries < MaxDeliveries
    /\ deliveries' = deliveries + 1
    /\ entry' = [entry EXCEPT ![p] = "getTriggerToken"]
    /\ TokenStart(p, <<>>, "getTriggerToken")
    /\ UNCHANGED <<flags, remote, request, mr, triggered, faults, prev,
                   redelivery, chain, raced>>

\* cancelRedundantBuilds(projectID, ref, excludePipeline), called on its own
CallCancelRedundantBuilds(p, ref, excludePipeline) ==
    /\ pc[p] \in {"idle", "done"}
    /\ deliveries < MaxDeliveries
    /\ deliveries' = deliveries + 1
    /\ entry' = [entry EXCEPT ![p] = "cancelRedundantBuilds"]
    /\ pc' = [pc EXCEPT ![p] = "getPipelines"]
    /\ deferred' = [deferred EXCEPT ![p] = <<>>]
    /\ sweep' = [sweep EXCEPT ![p] = [NoSweep EXCEPT !.ref = ref,
                                         !.exclude = excludePipeline]]
    /\ calls' = [calls EXCEPT ![p] = <<>>]
    /\ UNCHANGED <<flags, remote, request, mr, token, triggered, faults,
                   prev, redelivery, chain, raced>>

NextUnit ==
    \E p \in Procs :
        \/ CallGetTriggerToken(p)
        \/ \E ref \in {Feature, Master}, x \in 0..(Len(glPipelines) + 1) :
             CallCancelRedundantBuilds(p, ref, x)
        \/ ListTokens(p)
        \/ CreateToken(p)
        \/ GetPipelines(p)
        \/ GetPendingBuilds(p)
        \/ CancelBuild(p)

SpecUnit == InitUnit /\ [][NextUnit]_vars

\* -------------------------------------------------- concurrent deliveries

\* net/http serves every request in a goroutine of its own: two handlers
Handlers == {"h1", "h2"}

\* events of one merge request and one commit, from the platform's project
ConcurrentRequests ==
    { [Method |-> "POST", Decodes |-> TRUE,
       webhook |-> [ObjectKind |-> "merge_request",
                    Attributes |-> Attributes(a, "opened", FALSE,
                                              <<ProjectURL, ProjectURL>>)]] :
        a \in {"open", "update"} }

InitConcurrent ==
    /\ flags \in { f \in Flags : /\ main(f) /\ f.privateToken # ""
                                 /\ ~f.shouldTriggerMerged
                                 /\ f.removeSourceExceptions = <<>> }
    /\ glPipelines = <<>>
    /\ glCommit = 0
    /\ glTriggers \in InitTriggers
    /\ glMR \in [ForceRemoveSourceBranch : BOOLEAN]
    /\ pc = [p \in Handlers |-> "idle"]
    /\ entry = [p \in Handlers |-> ""]
    /\ request = [p \in Handlers |-> NoRequest]
    /\ mr = [p \in Handlers |-> NoMR]
    /\ token = [p \in Handlers |-> NoToken]
    /\ deferred = [p \in Handlers |-> <<>>]
    /\ sweep = [p \in Handlers |-> NoSweep]
    /\ calls = [p \in Handlers |-> <<>>]
    /\ triggered = [p \in Handlers |-> <<>>]
    /\ faults = [p \in Handlers |-> 0]
    /\ deliveries = 0
    /\ prev = 0
    /\ redelivery = [p \in Handlers |-> FALSE]
    /\ chain = 0
    /\ raced = FALSE

\* The two handlers run interleaved, one remote call at a time.
NextConcurrent ==
    \E p \in Handlers :
        \/ \E req \in ConcurrentRequests : Receive(p, req)
        \/ GetMergeRequest(p)
        \/ GetCommit(p)
        \/ ListTokens(p)
        \/ CreateToken(p)
        \/ RunTrigger(p)
        \/ GetPipelines(p)
        \/ GetPendingBuilds(p)
        \/ CancelBuild(p)
        \/ SetRemoveSourceBranchForMR(p)

SpecConcurrent == InitConcurrent /\ [][NextConcurrent]_vars

\* ------------------------------------------------------------ specification

\* Requests are delivered one after the other to one handler goroutine.
Next ==
    \E p \in Procs :
        \/ \E req \in Requests : Receive(p, req)
        \/ Redeliver(p)
        \/ GetMergeRequest(p)
        \/ GetCommit(p)
        \/ ListTokens(p)
        \/ CreateToken(p)
        \/ RunTrigger(p)
        \/ GetPipelines(p)
        \/ GetPendingBuilds(p)
        \/ CancelBuild(p)
        \/ SetRemoveSourceBranchForMR(p)

Spec == Init /\ [][Next]_vars

\* ------------------------------------------------------------ the claims

At(p) == request[p].webhook.Attributes
Handling(p) == entry[p] = "handlerWebhook"
Returned(p) == pc[p] = "done"

\* a call that went out to GitLab
IsRemote(c) == c.kind # "respond" /\ c.res # "unsent"
IsResponse(c) == c.kind = "respond"
RemoteCalls(p) == SelectSeq(calls[p], IsRemote)
Responses(p) == SelectSeq(calls[p], IsResponse)
CallKinds(p) == { calls[p][i].kind : i \in DOMAIN calls[p] }
CallsOf(p, kind) == { i \in DOMAIN calls[p] : calls[p][i].kind = kind }
Answered(p, kind) == \E i \in CallsOf(p, kind) : calls[p][i].res = "ok"
AllAnswered(p) ==
    \A i \in DOMAIN calls[p] : IsRemote(calls[p][i]) => calls[p][i].res = "ok"

\* the handler wrote exactly this one response
Outcome(p, code, msg, id) ==
    Responses(p) =
      <<[kind |-> "respond", arg |-> code, res |-> msg, id |-> id]>>

OnlyTheLookup(p) ==
    /\ Len(RemoteCalls(p)) <= 1
    /\ CallKinds(p) \subseteq {"getMergeRequest", "respond"}

SameProject(p) == At(p).Source.HTTPURL = At(p).Target.HTTPURL
UnderPlatform(p) == HasPrefix(At(p).Source.HTTPURL, flags.gitlabURL)

\* C1, as stated: a re-delivered request whose first delivery's pipeline the
\* commit has makes no trigger call and always ends with 200 "already has
\* pipeline"; one pipeline at most is created over the deliveries.
C1_Original ==
    \A p \in Procs :
        Handling(p) /\ redelivery[p] =>
            /\ "runTrigger" \notin CallKinds(p)
            /\ Returned(p) => Outcome(p, StatusOK, "exists", prev)
            /\ chain <= 1

\* C1, amended: such a re-delivery makes no trigger call, creates no second
\* pipeline, and ends with 200 "already has pipeline" when its merge-request
\* and commit lookups are answered; when one of them fails it ends with 500.
C1_Redelivery ==
    \A p \in Procs :
        Handling(p) /\ redelivery[p] =>
            /\ "runTrigger" \notin CallKinds(p)
            /\ triggered[p] = <<>>
            /\ chain <= 1
            /\ Returned(p) =>
                 IF Answered(p, "getMergeRequest") /\ Answered(p, "getCommit")
                 THEN Outcome(p, StatusOK, "exists", prev)
                 ELSE \/ Outcome(p, StatusInternalServerError, "mr", 0)
                      \/ Outcome(p, StatusInternalServerError, "commit", 0)

C1_Witness ==
    \E p \in Procs :
        /\ Handling(p) /\ redelivery[p] /\ Returned(p)
        /\ deliveries = 2 /\ chain = 1
        /\ Outcome(p, StatusOK, "exists", prev)

\* C2: an event with work_in_progress = true never leads to a trigger call,
\* whatever its other fields and whatever GitLab answers.
C2_WipNeverTriggers ==
    \A p \in Procs :
        Handling(p) /\ At(p).WorkInProgress =>
            /\ "runTrigger" \notin CallKinds(p)
            /\ triggered[p] = <<>>

C2_Witness ==
    \E p \in Procs :
        /\ Handling(p) /\ Returned(p) /\ At(p).WorkInProgress
        /\ At(p).Action = "update" /\ SameProject(p) /\ UnderPlatform(p)
        /\ Outcome(p, StatusAccepted, "wip", 0)

\* C3, as stated: an event whose source and target project URLs differ is
\* rejected as a fork with no remote call at all.
C3_Original ==
    \A p \in Procs :
        Handling(p) /\ ~SameProject(p) =>
            /\ RemoteCalls(p) = <<>>
            /\ Returned(p) => Outcome(p, StatusBadRequest, "fork", 0)

\* C3, amended: handling such an event sends one remote call at most, the
\* read of the merge request, and no other; it ends with 500 when that read
\* fails, with 404 when the source URL is not under the platform URL, and
\* with the fork rejection (400) otherwise.
C3_ForkAfterLookup ==
    \A p \in Procs :
        Handling(p) /\ ~SameProject(p) =>
            /\ OnlyTheLookup(p)
            /\ Returned(p) =>
                 IF ~Answered(p, "getMergeRequest")
                 THEN Outcome(p, StatusInternalServerError, "mr", 0)
                 ELSE IF ~UnderPlatform(p)
                 THEN Outcome(p, StatusNotFound, "prefix", 0)
                 ELSE Outcome(p, StatusBadRequest, "fork", 0)

C3_Witness ==
    \E p \in Procs :
        /\ Handling(p) /\ Returned(p) /\ ~SameProject(p)
        /\ Len(RemoteCalls(p)) = 1 /\ Answered(p, "getMergeRequest")
        /\ Outcome(p, StatusBadRequest, "fork", 0)

\* C4, as stated: an event with action close and a state other than merged
\* is skipped as an ignored action with no remote call at all.
C4_Original ==
    \A p \in Procs :
        Handling(p) /\ At(p).Action = "close" /\ At(p).State # "merged" =>
            /\ RemoteCalls(p) = <<>>
            /\ Returned(p) =>
                 Outcome(p, StatusNonAuthoritativeInfo, "action", 0)

\* C4, amended: handling such an event sends one remote call at most, the
\* read of the merge request; when that read is answered and the event is
\* from the platform and no fork, it is skipped as an ignored action (203).
C4_CloseAfterLookup ==
    \A p \in Procs :
        Handling(p) /\ At(p).Action = "close" /\ At(p).State # "merged" =>
            /\ OnlyTheLookup(p)
            /\ Returned(p) /\ Answered(p, "getMergeRequest")
                 /\ UnderPlatform(p) /\ SameProject(p) =>
                 Outcome(p, StatusNonAuthoritativeInfo, "action", 0)

C4_Witness ==
    \E p \in Procs :
        /\ Handling(p) /\ Returned(p)
        /\ At(p).Action = "close" /\ At(p).State # "merged"
        /\ Len(RemoteCalls(p)) = 1
        /\ Outcome(p, StatusNonAuthoritativeInfo, "action", 0)

\* the case of C5: an open, not work-in-progress merge request of a platform
\* project, a commit lookup that found no pipeline, and every call answered
C5_Case(p) ==
    /\ Handling(p) /\ Returned(p)
    /\ request[p].Method = "POST"
    /\ request[p].webhook.ObjectKind = "merge_request"
    /\ At(p).Action = "open" /\ ~At(p).WorkInProgress
    /\ SameProject(p) /\ UnderPlatform(p)
    /\ AllAnswered(p)
    /\ \E i \in CallsOf(p, "getCommit") : calls[p][i].arg = 0

\* exactly one trigger call, on ref, and 201 with the id GitLab answered
C5_Triggered(p, ref) ==
    /\ Cardinality(CallsOf(p, "runTrigger")) = 1
    /\ Len(triggered[p]) = 1
    /\ triggered[p][1].ref = ref
    /\ \E i \in CallsOf(p, "runTrigger") :
         /\ calls[p][i].arg \in 1..Len(glPipelines)
         /\ glPipelines[calls[p][i].arg].ref = ref
         /\ Outcome(p, StatusCreated, "created", calls[p][i].arg)

\* C5, as stated: in that case the one trigger call is on the source branch.
C5_Original ==
    \A p \in Procs : C5_Case(p) => C5_Triggered(p, At(p).SourceBranch)

\* C5, amended: in that case the handler sends exactly one trigger call and
\* answers 201 with the id of the pipeline created; the ref is the source
\* branch unless the event's state is merged, and then the target branch.
C5_EndToEnd ==
    \A p \in Procs :
        C5_Case(p) =>
            C5_Triggered(p, IF At(p).State = "merged"
                            THEN At(p).TargetBranch ELSE At(p).SourceBranch)

C5_Witness ==
    \E p \in Procs :
        /\ C5_Case(p) /\ At(p).State = "opened"
        /\ C5_Triggered(p, Feature)

\* the jobs a sweep is to cancel, from GitLab's table as the sweep found it:
\* the pending jobs of the running pipelines on its ref, the excluded one
\* left out
RedundantJobs(p) ==
    LET before == sweep[p].before
    IN  UNION { before[i].pending :
                  i \in { j \in DOMAIN before :
                            /\ before[j].ref = sweep[p].ref
                            /\ before[j].running
                            /\ j # sweep[p].exclude } }

ExcludedJobs(p) ==
    IF sweep[p].exclude \in DOMAIN sweep[p].before
    THEN sweep[p].before[sweep[p].exclude].pending
    ELSE {}

CancelledJobs(p) == { calls[p][i].arg : i \in CallsOf(p, "cancelBuild") }

Listed(p) ==
    IF \E i \in CallsOf(p, "createToken") : Effect(calls[p][i].res)
    THEN SubSeq(glTriggers, 1, Len(glTriggers) - 1)
    ELSE glTriggers

Live(t) == t.DeletedAt = "" /\ t.Token # ""

\* C7: getTriggerToken returns the static token, calling nothing, when one
\* is configured; otherwise, the listing answered, it returns the token of
\* the first listed trigger that is not deleted and has a token, creating
\* none, and when no listed trigger is such it makes one create call and
\* returns the token created.
C7_TokenResolution ==
    \A p \in Procs :
        entry[p] = "getTriggerToken" /\ Returned(p) =>
            IF flags.triggerToken # ""
            THEN /\ token[p] = [token |-> flags.triggerToken, err |-> FALSE]
                 /\ calls[p] = <<>>
            ELSE Answered(p, "listTokens") =>
                 IF \E i \in DOMAIN Listed(p) : Live(Listed(p)[i])
                 THEN LET first == CHOOSE i \in DOMAIN Listed(p) :
                                     /\ Live(Listed(p)[i])
                                     /\ \A j \in 1..(i - 1) :
                                          ~Live(Listed(p)[j])
                      IN  /\ token[p] = [token |-> Listed(p)[first].Token,
                                         err |-> FALSE]
                          /\ CallsOf(p, "createToken") = {}
                 ELSE /\ Cardinality(CallsOf(p, "createToken")) = 1
                      /\ Answered(p, "createToken") =>
                           token[p] =
                             [token |-> glTriggers[Len(glTriggers)].Token,
                              err |-> FALSE]

\* the second of three listed triggers is the first usable one
C7_Witness ==
    \E p \in Procs :
        /\ entry[p] = "getTriggerToken" /\ Returned(p)
        /\ flags.triggerToken = "" /\ Answered(p, "listTokens")
        /\ Len(glTriggers) = 3
        /\ token[p] = [token |-> "t2", err |-> FALSE]
        /\ CallsOf(p, "createToken") = {}

\* C8: every trigger call is on the target branch when the event's state is
\* merged and on the source branch for every other state.
C8_RefSelection ==
    \A p \in Procs :
        \A i \in DOMAIN triggered[p] :
            triggered[p][i].ref = IF At(p).State = "merged"
                                  THEN At(p).TargetBranch
                                  ELSE At(p).SourceBranch

C8_Witness ==
    \E p \in Procs :
        /\ Len(triggered[p]) = 1
        /\ At(p).State = "merged" /\ At(p).Action = "merge"
        /\ triggered[p][1].ref = Master

\* what a variable set carries, by the type of the value
CarriesText(v, x) ==
    \E k \in {"CI_MERGE_REQUEST", "MR_STATE"} \cap DOMAIN v : v[k] = x
CarriesName(v, x) ==
    \E k \in {"MR_SOURCE_BRANCH", "MR_TARGET_BRANCH"} \cap DOMAIN v : v[k] = x
CarriesNumber(v, x) ==
    \E k \in {"MR_ID", "MR_IID"} \cap DOMAIN v : v[k] = x

\* C9, as stated: every trigger call carries the marker, the merge request's
\* id and iid, its action, its state, the target project's clone URL and
\* the target branch.
C9_Original ==
    \A p \in Procs :
        \A i \in DOMAIN triggered[p] :
            LET v == triggered[p][i].variables
            IN  /\ CarriesText(v, "true")
                /\ CarriesNumber(v, At(p).ID)
                /\ CarriesNumber(v, At(p).IID)
                /\ CarriesText(v, At(p).Action)
                /\ CarriesText(v, At(p).State)
                /\ CarriesName(v, At(p).Target.HTTPURL)
                /\ CarriesName(v, At(p).TargetBranch)

\* C9, amended: every trigger call carries exactly six variables: the
\* marker CI_MERGE_REQUEST=true, the source branch, the target branch, the
\* merge request's id, its iid and its state.
C9_Variables ==
    \A p \in Procs :
        \A i \in DOMAIN triggered[p] :
            LET v == triggered[p][i].variables
            IN  /\ DOMAIN v = {"CI_MERGE_REQUEST", "MR_SOURCE_BRANCH",
                               "MR_TARGET_BRANCH", "MR_ID", "MR_IID",
                               "MR_STATE"}
                /\ v.CI_MERGE_REQUEST = "true"
                /\ v.MR_SOURCE_BRANCH = At(p).SourceBranch
                /\ v.MR_TARGET_BRANCH = At(p).TargetBranch
                /\ v.MR_ID = At(p).ID
                /\ v.MR_IID = At(p).IID
                /\ v.MR_STATE = At(p).State

C9_Witness ==
    \E p \in Procs :
        /\ Len(triggered[p]) = 1
        /\ At(p).Action = "update" /\ At(p).State = "opened"
        /\ triggered[p][1].variables.MR_ID = 7
        /\ triggered[p][1].variables.MR_IID = 3
        /\ triggered[p][1].variables.MR_STATE = "opened"

\* a merge-request event whose action is none of open, reopen, update
C10_Case(p) ==
    /\ Handling(p)
    /\ request[p].Method = "POST"
    /\ request[p].webhook.ObjectKind = "merge_request"
    /\ At(p).Action \notin {"open", "reopen", "update"}

C10_Held(p) == At(p).State # "merged" \/ ~flags.shouldTriggerMerged

\* C10, as stated: such an event is skipped with 203 and no trigger call
\* when its state is not merged or --trigger-merged is off; when it is
\* merged and the flag is on it goes on to the work-in-progress check and
\* the commit lookup.
C10_Original ==
    \A p \in Procs :
        C10_Case(p) =>
            IF C10_Held(p)
            THEN /\ "runTrigger" \notin CallKinds(p)
                 /\ Returned(p) =>
                      \/ Outcome(p, StatusNonAuthoritativeInfo, "action", 0)
                      \/ Outcome(p, StatusNonAuthoritativeInfo, "merged", 0)
            ELSE Returned(p) =>
                   IF At(p).WorkInProgress
                   THEN Outcome(p, StatusAccepted, "wip", 0)
                   ELSE "getCommit" \in CallKinds(p)

\* C10, amended: the same, for an event that reached the action/state rule,
\* that is, whose merge-request lookup was answered and which is from the
\* platform and no fork; an event held back makes no commit lookup and no
\* trigger call in any case.
C10_Admission ==
    \A p \in Procs :
        C10_Case(p) =>
            LET reached == /\ Returned(p) /\ Answered(p, "getMergeRequest")
                           /\ UnderPlatform(p) /\ SameProject(p)
            IN  IF C10_Held(p)
                THEN /\ "runTrigger" \notin CallKinds(p)
                     /\ "getCommit" \notin CallKinds(p)
                     /\ reached =>
                          Outcome(p, StatusNonAuthoritativeInfo,
                                  IF At(p).State = "merged" THEN "merged"
                                  ELSE "action", 0)
                ELSE reached =>
                       IF At(p).WorkInProgress
                       THEN Outcome(p, StatusAccepted, "wip", 0)
                       ELSE /\ "getCommit" \in CallKinds(p)
                            /\ \A i \in DOMAIN Responses(p) :
                                 Responses(p)[i].arg
                                   # StatusNonAuthoritativeInfo

\* a merged event with --trigger-merged on goes all the way to a pipeline
C10_Witness ==
    \E p \in Procs :
        /\ C10_Case(p) /\ ~C10_Held(p) /\ Returned(p)
        /\ Len(triggered[p]) = 1
        /\ \E id \in 1..Len(glPipelines) :
             Outcome(p, StatusCreated, "created", id)

\* a decoded POST whose handling is over and, when it is a merge request
\* event, whose merge-request lookup was answered
Filtered(p) ==
    /\ Handling(p) /\ Returned(p)
    /\ request[p].Method = "POST" /\ request[p].Decodes
    /\ \/ request[p].webhook.ObjectKind # "merge_request"
       \/ Answered(p, "getMergeRequest")

OtherKind(p) == request[p].webhook.ObjectKind # "merge_request"
\* the action/state rule holds the event back
ActionHeld(p) ==
    /\ At(p).Action \notin {"open", "reopen", "update"}
    /\ At(p).State # "merged" \/ ~flags.shouldTriggerMerged

\* the one status written
Status(p, code) ==
    /\ Len(Responses(p)) = 1
    /\ Responses(p)[1].arg = code

FilterStatuses ==
    {StatusUnprocessableEntity, StatusNonAuthoritativeInfo, StatusAccepted,
     StatusNotFound, StatusBadRequest}

\* C11, as stated: the rules are applied in the order object kind,
\* action/state, work in progress, source host, fork, and the outcome is
\* that of the first rule in this order the event fails.
C11_Original ==
    \A p \in Procs :
        Filtered(p) =>
            IF OtherKind(p) THEN Status(p, StatusUnprocessableEntity)
            ELSE IF ActionHeld(p) THEN Status(p, StatusNonAuthoritativeInfo)
            ELSE IF At(p).WorkInProgress THEN Status(p, StatusAccepted)
            ELSE IF ~UnderPlatform(p) THEN Status(p, StatusNotFound)
            ELSE IF ~SameProject(p) THEN Status(p, StatusBadRequest)
            ELSE \A c \in FilterStatuses : ~Status(p, c)

\* C11, amended: the rules are applied in the order object kind, source
\* host, fork, action/state, work in progress, the last four once the merge
\* request is fetched, and the outcome is that of the first rule in this
\* order the event fails: a work-in-progress or ignored-action event that is
\* from an unexpected host ends 404, one that is a fork ends 400.
C11_FilterOrder ==
    \A p \in Procs :
        Filtered(p) =>
            IF OtherKind(p) THEN Status(p, StatusUnprocessableEntity)
            ELSE IF ~UnderPlatform(p) THEN Status(p, StatusNotFound)
            ELSE IF ~SameProject(p) THEN Status(p, StatusBadRequest)
            ELSE IF ActionHeld(p) THEN Status(p, StatusNonAuthoritativeInfo)
            ELSE IF At(p).WorkInProgress THEN Status(p, StatusAccepted)
            ELSE \A c \in FilterStatuses : ~Status(p, c)

\* a work-in-progress event with an ignored action, from a fork: 400
C11_Witness ==
    \E p \in Procs :
        /\ Filtered(p) /\ ~OtherKind(p)
        /\ At(p).WorkInProgress /\ ActionHeld(p)
        /\ UnderPlatform(p) /\ ~SameProject(p)
        /\ Outcome(p, StatusBadRequest, "fork", 0)

\* the status each outcome is to be reported with
StatusOf(outcome) ==
    CASE outcome = "method" -> StatusMethodNotAllowed
      [] outcome = "decode" -> StatusUnsupportedMediaType
      [] outcome = "kind" -> StatusUnprocessableEntity
      [] outcome = "prefix" -> StatusNotFound
      [] outcome = "fork" -> StatusBadRequest
      [] outcome \in {"action", "merged"} -> StatusNonAuthoritativeInfo
      [] outcome = "wip" -> StatusAccepted
      [] outcome = "exists" -> StatusOK
      [] outcome = "created" -> StatusCreated
      [] outcome \in {"mr", "commit", "token", "trigger"} ->
           StatusInternalServerError
      [] OTHER -> 0

\* the remote call whose failure the outcome reports
FailedStep(outcome) ==
    CASE outcome = "mr" -> "getMergeRequest"
      [] outcome = "commit" -> "getCommit"
      [] outcome = "token" -> "createToken"
      [] outcome = "trigger" -> "runTrigger"
      [] OTHER -> ""

\* what happened to the event when response i of the log was written
Happened(p, i) ==
    LET outcome == calls[p][i].res
        last == IF i > 1 THEN calls[p][i - 1]
                ELSE [kind |-> "", arg |-> 0, res |-> "", id |-> 0]
    IN  CASE outcome = "method" -> request[p].Method # "POST"
          [] outcome = "decode" -> ~request[p].Decodes
          [] outcome = "kind" -> OtherKind(p)
          [] outcome = "prefix" -> ~UnderPlatform(p)
          [] outcome = "fork" -> ~SameProject(p)
          [] outcome \in {"action", "merged"} -> ActionHeld(p)
          [] outcome = "wip" -> At(p).WorkInProgress
          [] outcome = "exists" ->
               /\ last.kind = "getCommit" /\ last.res = "ok"
               /\ last.arg # 0 /\ calls[p][i].id = last.arg
          [] outcome = "created" ->
               /\ last.kind = "runTrigger" /\ last.res = "ok"
               /\ calls[p][i].id = last.arg
          [] outcome \in {"mr", "commit", "token", "trigger"} ->
               /\ last.kind = FailedStep(outcome) /\ last.res # "ok"
          [] OTHER -> FALSE

\* C12: every response the handler writes reports what happened to the
\* event, with the one status of that outcome: 405 wrong method, 415
\* undecodable body, 422 other object kind, 404 unexpected host, 400 fork,
\* 203 ignored action/state, 202 work in progress, 200 already has
\* pipeline, 201 pipeline created, 500 a failed merge-request, commit,
\* token or trigger step; two different outcomes share no status.
C12_StatusMapping ==
    \A p \in Procs :
        Handling(p) =>
            \A i \in DOMAIN calls[p] :
                IsResponse(calls[p][i]) =>
                    /\ calls[p][i].arg = StatusOf(calls[p][i].res)
                    /\ calls[p][i].arg # 0
                    /\ Happened(p, i)

\* a token that could be neither found nor created: 500
C12_Witness ==
    \E p \in Procs :
        /\ Handling(p) /\ Returned(p)
        /\ Len(calls[p]) = 5
        /\ calls[p][4].kind = "createToken" /\ calls[p][4].res = "fail"
        /\ Outcome(p, StatusInternalServerError, "token", 0)

RemoveCalls(p) == CallsOf(p, "setRemoveSourceBranchForMR")

\* branch is one of the comma-separated items of list
InExceptions(list, branch) ==
    /\ \A k \in DOMAIN branch : branch[k] # ","
    /\ \E a \in 1..(Len(list) + 1), b \in 0..Len(list) :
         /\ SubSeq(list, a, b) = branch
         /\ a = 1 \/ list[a - 1] = ","
         /\ b = Len(list) \/ list[b + 1] = ","

\* C13: handling one event makes the update-merge-request call at most
\* once, and only if the event's action is open, the merge request was
\* fetched with force_remove_source_branch false and the source branch is
\* not in the exception list; the call comes after the event's response
\* is written.
C13_RemoveSourceBranch ==
    \A p \in Procs :
        Handling(p) =>
            /\ Cardinality(RemoveCalls(p)) <= 1
            /\ \A i \in RemoveCalls(p) :
                 /\ At(p).Action = "open"
                 /\ Answered(p, "getMergeRequest")
                 /\ mr[p].ForceRemoveSourceBranch = FALSE
                 /\ ~InExceptions(flags.removeSourceExceptions,
                                  At(p).SourceBranch)
                 /\ \E j \in 1..(i - 1) : IsResponse(calls[p][j])

\* an opened merge request gets its pipeline, the sweep runs, and the flag
\* is set last
C13_Witness ==
    \E p \in Procs :
        /\ Handling(p) /\ Returned(p) /\ At(p).Action = "open"
        /\ \E id \in 1..Len(glPipelines) :
             Outcome(p, StatusCreated, "created", id)
        /\ calls[p][Len(calls[p])].kind = "setRemoveSourceBranchForMR"
        /\ calls[p][Len(calls[p])].res = "ok"
        /\ "getPipelines" \in CallKinds(p)
        /\ mr[p].ForceRemoveSourceBranch = FALSE
        /\ glMR.ForceRemoveSourceBranch = TRUE

\* cancelRedundantBuilds was entered for the event
SweepStarted(p) ==
    \/ pc[p] \in {"getPipelines", "getPendingBuilds", "cancelBuild"}
    \/ "getPipelines" \in CallKinds(p)

\* the pipeline the event's commit lookup found (0: none, or no answer)
Discovered(p) ==
    IF \E i \in CallsOf(p, "getCommit") : calls[p][i].res = "ok"
    THEN LET i == CHOOSE i \in CallsOf(p, "getCommit") : calls[p][i].res = "ok"
         IN  calls[p][i].arg
    ELSE 0

\* the pipeline the event's trigger call was answered with (0: none)
Created(p) ==
    IF \E i \in CallsOf(p, "runTrigger") : calls[p][i].res = "ok"
    THEN LET i == CHOOSE i \in CallsOf(p, "runTrigger") : calls[p][i].res = "ok"
         IN  calls[p][i].arg
    ELSE 0

\* C14: a cancellation sweep is started in the outcomes 'already has
\* pipeline' and 'pipeline created' and in no other; it leaves out exactly
\* the pipeline the event's commit lookup returned (first outcome) or the
\* one its trigger call returned (second outcome); in the first outcome no
\* trigger call is made and the sweep still runs.
C14_ExclusionKey ==
    \A p \in Procs :
        Handling(p) =>
            /\ Cardinality(CallsOf(p, "getPipelines")) <= 1
            /\ SweepStarted(p) =>
                 \/ /\ Discovered(p) # 0
                    /\ Outcome(p, StatusOK, "exists", Discovered(p))
                    /\ sweep[p].exclude = Discovered(p)
                    /\ "runTrigger" \notin CallKinds(p)
                 \/ /\ Discovered(p) = 0 /\ Created(p) # 0
                    /\ Outcome(p, StatusCreated, "created", Created(p))
                    /\ sweep[p].exclude = Created(p)
            /\ Returned(p) /\ (Status(p, StatusOK) \/ Status(p, StatusCreated))
                 => "getPipelines" \in CallKinds(p)

\* the commit has pipeline 2: no trigger, and the sweep cancels the two
\* pending jobs of pipeline 1
C14_Witness ==
    \E p \in Procs :
        /\ Handling(p) /\ Returned(p)
        /\ Outcome(p, StatusOK, "exists", 2)
        /\ "runTrigger" \notin CallKinds(p)
        /\ sweep[p].exclude = 2
        /\ CancelledJobs(p) = {11, 12}

CommitLookupFailed(p) ==
    \E i \in CallsOf(p, "getCommit") : calls[p][i].res # "ok"

\* C15: when the commit lookup fails the handler answers 500 and makes no
\* token-listing, token-creation, trigger or cancellation call.
C15_CommitLookupFailure ==
    \A p \in Procs :
        Handling(p) /\ CommitLookupFailed(p) =>
            /\ Outcome(p, StatusInternalServerError, "commit", 0)
            /\ CallKinds(p) \cap {"listTokens", "createToken", "runTrigger",
                                  "getPipelines", "getPendingBuilds",
                                  "cancelBuild"} = {}
            /\ triggered[p] = <<>>
            /\ ~SweepStarted(p)

\* the commit that could not be looked up has a pipeline in GitLab
C15_Witness ==
    \E p \in Procs :
        /\ Handling(p) /\ Returned(p) /\ CommitLookupFailed(p)
        /\ glCommit # 0
        /\ Outcome(p, StatusInternalServerError, "commit", 0)

\* the log entry after entry i is a call of kind, or the handler is about
\* to make one
FollowedBy(p, i, kind) ==
    IF i = Len(calls[p]) THEN pc[p] = kind
    ELSE calls[p][i + 1].kind = kind

\* C16: with no static token, a failed list-triggers call is not reported
\* and is followed by a create-trigger call, whose token the trigger call
\* then uses; a failed create-trigger call ends the event with 500, no
\* trigger call and no sweep.
C16_TokenFailures ==
    \A p \in Procs :
        Handling(p) /\ flags.triggerToken = "" =>
            /\ \A i \in CallsOf(p, "listTokens") :
                 calls[p][i].res # "ok" =>
                     /\ FollowedBy(p, i, "createToken")
                     /\ \A j \in DOMAIN triggered[p] :
                          /\ Answered(p, "createToken")
                          /\ triggered[p][j].token =
                               glTriggers[Len(glTriggers)].Token
            /\ (\E i \in CallsOf(p, "createToken") : calls[p][i].res # "ok")
                 => /\ Outcome(p, StatusInternalServerError, "token", 0)
                    /\ "runTrigger" \notin CallKinds(p)
                    /\ triggered[p] = <<>>
                    /\ ~SweepStarted(p)

\* the listing, which would have shown the usable t2, fails: a trigger is
\* created and the pipeline is triggered with its token
C16_Witness ==
    \E p \in Procs :
        /\ Handling(p) /\ Returned(p) /\ flags.triggerToken = ""
        /\ \E i \in CallsOf(p, "listTokens") : calls[p][i].res = "fail"
        /\ Len(glTriggers) = 4 /\ glTriggers[2].Token = "t2"
        /\ Len(triggered[p]) = 1 /\ triggered[p][1].token = "auto"
        /\ Status(p, StatusCreated)

TriggerFailed(p) ==
    \E i \in CallsOf(p, "runTrigger") : calls[p][i].res # "ok"

\* C17: when the trigger call fails (no answer, another status, or an
\* answer that does not decode) the handler answers 500, never 'pipeline
\* created', and starts no cancellation sweep.
C17_TriggerFailure ==
    \A p \in Procs :
        Handling(p) /\ TriggerFailed(p) =>
            /\ Outcome(p, StatusInternalServerError, "trigger", 0)
            /\ \A i \in DOMAIN calls[p] :
                 IsResponse(calls[p][i]) =>
                     /\ calls[p][i].arg # StatusCreated
                     /\ calls[p][i].res # "created"
            /\ ~SweepStarted(p)
            /\ CallKinds(p) \cap {"getPipelines", "getPendingBuilds",
                                  "cancelBuild"} = {}

\* GitLab created the pipeline but its answer did not decode
C17_Witness ==
    \E p \in Procs :
        /\ Handling(p) /\ Returned(p)
        /\ \E i \in CallsOf(p, "runTrigger") :
             /\ calls[p][i].res = "garbled"
             /\ calls[p][i].arg = Len(glPipelines)
        /\ Outcome(p, StatusInternalServerError, "trigger", 0)

\* the goroutine is in one of the two deferred side flows
InSideFlow(p) ==
    pc[p] \in {"getPipelines", "getPendingBuilds", "cancelBuild",
               "setRemoveSourceBranchForMR"}

\* C18: when the sweep or the remove-source-branch update is about to run,
\* the event's one response is written, and no step of the two side flows,
\* whether its call succeeds or fails, changes it.
C18_OutcomeIsolated ==
    [][\A p \in Procs :
          Handling(p) /\ InSideFlow(p) =>
              /\ Len(Responses(p)) = 1
              /\ Responses(p)' = Responses(p)]_vars

\* 201, then a sweep in which a call fails and a flag update that fails
C18_Witness ==
    \E p \in Procs :
        /\ Handling(p) /\ Returned(p)
        /\ Status(p, StatusCreated)
        /\ IsResponse(calls[p][5])
        /\ \E i \in CallsOf(p, "getPendingBuilds") \cup
                    CallsOf(p, "cancelBuild") :
             i > 5 /\ calls[p][i].res = "fail"
        /\ \E i \in CallsOf(p, "setRemoveSourceBranchForMR") :
             i > 5 /\ calls[p][i].res = "fail"

\* the pipelines a sweep has to visit, from GitLab's table as it found it
ToVisit(p) ==
    { i \in DOMAIN sweep[p].before :
        /\ sweep[p].before[i].ref = sweep[p].ref
        /\ sweep[p].before[i].running
        /\ i # sweep[p].exclude }

\* the pipelines whose pending jobs were listed, and those listed with
\* an answer
Visited(p) == { calls[p][i].arg : i \in CallsOf(p, "getPendingBuilds") }
VisitedOK(p) ==
    { calls[p][i].arg :
        i \in { j \in CallsOf(p, "getPendingBuilds") : calls[p][j].res = "ok" } }

\* C19: in one run of cancelRedundantBuilds whose pipeline listing was
\* answered, every running pipeline on the ref but the excluded one has its
\* pending jobs listed, whatever failed before it, and every pending job of
\* a pipeline whose listing was answered gets a cancel call, whatever
\* cancel call failed before it.
C19_SweepGoesOn ==
    \A p \in Procs :
        /\ entry[p] = "cancelRedundantBuilds"
        /\ Returned(p) /\ Answered(p, "getPipelines")
        => /\ Visited(p) = ToVisit(p)
           /\ CancelledJobs(p) =
                UNION { sweep[p].before[i].pending : i \in VisitedOK(p) }

\* the cancel call for job 11 fails, jobs 12 and 21 still get theirs
C19_Witness ==
    \E p \in Procs :
        /\ entry[p] = "cancelRedundantBuilds" /\ Returned(p)
        /\ sweep[p].before = <<Pipeline(Feature, TRUE, {11, 12}),
                               Pipeline(Feature, TRUE, {21})>>
        /\ sweep[p].exclude = 0
        /\ \E i \in CallsOf(p, "cancelBuild") :
             calls[p][i].arg = 11 /\ calls[p][i].res = "fail"
        /\ CancelledJobs(p) = {11, 12, 21}
        /\ glPipelines = <<Pipeline(Feature, TRUE, {11}),
                           Pipeline(Feature, TRUE, {})>>

\* the handler's commit lookup was answered: no pipeline
FoundNone(p) ==
    \E i \in CallsOf(p, "getCommit") :
        calls[p][i].res = "ok" /\ calls[p][i].arg = 0

\* every call of the primary flow whose failure ends it was answered
PrimaryAnswered(p) ==
    \A i \in DOMAIN calls[p] :
        calls[p][i].kind \in {"getMergeRequest", "getCommit", "createToken",
                              "runTrigger"}
            => calls[p][i].res = "ok"

Responded(p) == Responses(p) # <<>>

\* C20: of two handlers serving events of one commit concurrently, each
\* one whose commit lookup returned no pipeline makes its trigger call,
\* whatever the other has done since, and, its calls answered, ends 201
\* with a pipeline of its own; so when both lookups return no pipeline
\* before either trigger call, two pipelines are created for the one commit
\* and both events end 201.  A handler whose lookup returned a pipeline
\* makes no trigger call.
C20_DoubleTrigger ==
    /\ \A p \in Handlers :
         Handling(p) =>
             /\ FoundNone(p) /\ PrimaryAnswered(p) /\ Responded(p) =>
                  /\ Created(p) \in 1..Len(glPipelines)
                  /\ Outcome(p, StatusCreated, "created", Created(p))
                  /\ Len(triggered[p]) = 1
             /\ Discovered(p) # 0 =>
                  /\ "runTrigger" \notin CallKinds(p)
                  /\ Outcome(p, StatusOK, "exists", Discovered(p))
    /\ \A p, q \in Handlers :
         p # q /\ Created(p) # 0 /\ Created(q) # 0 => Created(p) # Created(q)
    /\ raced /\ (\A p \in Handlers : PrimaryAnswered(p) /\ Responded(p)) =>
         /\ \A p \in Handlers : Status(p, StatusCreated)
         /\ Len(glPipelines) = Cardinality(Handlers)

\* both lookups returned no pipeline before either trigger call; both
\* events ended 201 and the commit has two pipelines
C20_Witness ==
    /\ raced
    /\ \A p \in Handlers :
         /\ Handling(p) /\ Returned(p)
         /\ At(p).LastCommit.ID = "c1"
         /\ Status(p, StatusCreated)
    /\ Len(glPipelines) = 2
    /\ {Created(p) : p \in Handlers} = {1, 2}

\* the terminal outcomes: rejected, skipped, already-pipelined, triggered,
\* internal error
Outcomes ==
    {"method", "decode", "kind", "prefix", "fork", "action", "merged", "wip",
     "exists", "created", "mr", "commit", "token", "trigger"}

\* C21: one run of the handler writes at most one response, one of the
\* terminal outcomes, and exactly one by the time it has returned; what the
\* goroutine does after the response is the two deferred side flows only.
C21_SingleOutcome ==
    \A p \in Procs :
        Handling(p) =>
            /\ Len(Responses(p)) <= 1
            /\ Returned(p) => Len(Responses(p)) = 1
            /\ \A i \in DOMAIN calls[p] :
                 IsResponse(calls[p][i]) =>
                     /\ calls[p][i].res \in Outcomes
                     /\ \A j \in (i + 1)..Len(calls[p]) :
                          calls[p][j].kind \in
                            {"getPipelines", "getPendingBuilds",
                             "cancelBuild", "setRemoveSourceBranchForMR"}
            /\ Responses(p) = <<>> => ~InSideFlow(p)

\* an opened work-in-progress merge request: 202, then the flag update
C21_Witness ==
    \E p \in Procs :
        /\ Handling(p) /\ Returned(p)
        /\ Len(calls[p]) = 3
        /\ calls[p][2] = [kind |-> "respond", arg |-> StatusAccepted,
                          res |-> "wip", id |-> 0]
        /\ calls[p][3].kind = "setRemoveSourceBranchForMR"
        /\ Len(Responses(p)) = 1

\* the event ended as a validation error or as a policy rejection
Rejected(p) ==
    \E i \in DOMAIN Responses(p) :
        Responses(p)[i].res \in {"method", "decode", "kind", "prefix", "fork",
                                 "action", "merged", "wip"}

\* C22, as stated: an event that ends as a validation error or a policy
\* rejection makes no mutating call: no update-merge-request,
\* create-trigger, trigger-pipeline or cancel-job call.
C22_Original ==
    \A p \in Procs :
        Handling(p) /\ Rejected(p) =>
            CallKinds(p) \cap {"setRemoveSourceBranchForMR", "createToken",
                               "runTrigger", "cancelBuild"} = {}

\* C22, amended: such an event makes no create-trigger, trigger-pipeline or
\* cancel-job call, and no update-merge-request call either, except when it
\* is skipped as work in progress with action open: then, the merge request
\* fetched with force_remove_source_branch false and the source branch not
\* in the exception list, the update-merge-request call is made after the
\* 202 response.
C22_NoMutationButTheFlag ==
    \A p \in Procs :
        Handling(p) /\ Rejected(p) =>
            LET flagged == /\ Outcome(p, StatusAccepted, "wip", 0)
                           /\ At(p).Action = "open"
                           /\ mr[p].ForceRemoveSourceBranch = FALSE
                           /\ ~InExceptions(flags.removeSourceExceptions,
                                            At(p).SourceBranch)
            IN  /\ CallKinds(p) \cap {"createToken", "runTrigger",
                                      "cancelBuild"} = {}
                /\ triggered[p] = <<>>
                /\ RemoveCalls(p) # {} => flagged
                /\ flagged /\ Returned(p) =>
                     /\ Cardinality(RemoveCalls(p)) = 1
                     /\ \A i \in RemoveCalls(p) : IsResponse(calls[p][i - 1])

\* an opened work-in-progress merge request is skipped and has its flag set
C22_Witness ==
    \E p \in Procs :
        /\ Handling(p) /\ Returned(p)
        /\ At(p).WorkInProgress /\ At(p).Action = "open"
        /\ Outcome(p, StatusAccepted, "wip", 0)
        /\ \E i \in RemoveCalls(p) : calls[p][i].res = "ok"
        /\ mr[p].ForceRemoveSourceBranch = FALSE
        /\ glMR.ForceRemoveSourceBranch = TRUE

StaticMode == flags.triggerToken # ""

\* C23: with a static trigger token the private token is empty, no remote
\* call is ever sent, every POST of a merge_request payload ends 500 at the
\* merge-request lookup, and no trigger call is made.
C23_StaticTokenMode ==
    StaticMode =>
        /\ flags.privateToken = ""
        /\ \A p \in Procs :
             Handling(p) =>
                 /\ RemoteCalls(p) = <<>>
                 /\ CallKinds(p) \subseteq {"getMergeRequest", "respond"}
                 /\ triggered[p] = <<>>
                 /\ /\ request[p].Method = "POST" /\ request[p].Decodes
                    /\ ~OtherKind(p) /\ Responded(p)
                    => /\ Outcome(p, StatusInternalServerError, "mr", 0)
                       /\ calls[p][1].kind = "getMergeRequest"
                       /\ calls[p][1].res = "unsent"

\* an opened merge request nothing speaks against: 500
C23_Witness ==
    \E p \in Procs :
        /\ StaticMode /\ Handling(p) /\ Returned(p)
        /\ At(p).Action = "open" /\ ~At(p).WorkInProgress
        /\ SameProject(p) /\ UnderPlatform(p)
        /\ glCommit = 0
        /\ Outcome(p, StatusInternalServerError, "mr", 0)

MergeRequestLookupFailed(p) ==
    \E i \in CallsOf(p, "getMergeRequest") : calls[p][i].res # "ok"

\* C24: whatever the event's action, state, work-in-progress flag and
\* project URLs, a failed merge-request lookup ends it with 500, and the
\* lookup is the only remote call made for it: nothing is deferred.
C24_LookupFailure ==
    \A p \in Procs :
        Handling(p) /\ MergeRequestLookupFailed(p) =>
            /\ request[p].Method = "POST" /\ request[p].Decodes
            /\ ~OtherKind(p)
            /\ Returned(p) /\ deferred[p] = <<>>
            /\ Len(calls[p]) = 2
            /\ calls[p][1].kind = "getMergeRequest"
            /\ Outcome(p, StatusInternalServerError, "mr", 0)
            /\ triggered[p] = <<>>

\* an opened merge request whose flag would have been set, sent and failed
C24_Witness ==
    \E p \in Procs :
        /\ Handling(p) /\ Returned(p)
        /\ calls[p][1] = [kind |-> "getMergeRequest", arg |-> 3,
                          res |-> "fail", id |-> 0]
        /\ At(p).Action = "open" /\ ~At(p).WorkInProgress
        /\ SameProject(p) /\ UnderPlatform(p)
        /\ ~glMR.ForceRemoveSourceBranch
        /\ flags.removeSourceExceptions = <<>>
        /\ Status(p, StatusInternalServerError)

\* the pipeline a pending job belongs to, by the job's id
PipelineOf(job) == job \div 10

\* C25: every sweep is run on the event's source branch: the pipelines it
\* lists pending jobs of and the jobs it cancels are on that branch; for a
\* merged event the pipeline is triggered on the target branch, so the
\* sweep is not on the ref of the pipeline just created and touches no
\* pipeline on that ref.
C25_SweepRef ==
    \A p \in Procs :
        Handling(p) /\ SweepStarted(p) =>
            /\ sweep[p].ref = At(p).SourceBranch
            /\ \A i \in Visited(p) :
                 sweep[p].before[i].ref = At(p).SourceBranch
            /\ \A job \in CancelledJobs(p) :
                 sweep[p].before[PipelineOf(job)].ref = At(p).SourceBranch
            /\ At(p).State = "merged" /\ Created(p) # 0 =>
                 /\ glPipelines[Created(p)].ref = At(p).TargetBranch
                 /\ glPipelines[Created(p)].ref # sweep[p].ref
                 /\ \A i \in DOMAIN sweep[p].before :
                      sweep[p].before[i].ref = At(p).TargetBranch =>
                          /\ i \notin Visited(p)
                          /\ glPipelines[i].pending
                               = sweep[p].before[i].pending

\* a merged event: pipeline 3 is created on the target branch, the sweep
\* cancels the pending jobs of pipelines 1 and 2 on the source branch
C25_Witness ==
    \E p \in Procs :
        /\ Handling(p) /\ Returned(p)
        /\ At(p).State = "merged" /\ At(p).Action = "merge"
        /\ Outcome(p, StatusCreated, "created", 3)
        /\ glPipelines[3] = Pipeline(Master, TRUE, {31})
        /\ sweep[p].ref = Feature
        /\ CancelledJobs(p) = {11, 12, 21}

\* the pipeline GitLab created for handler p still has every pending job it
\* was created with
Untouched(p) ==
    glPipelines[Created(p)].pending = JobIDs(Created(p), NewPipelineJobs)

\* C26: when two handlers serving events of one commit and source branch
\* each create a pipeline, at least one of the two pipelines keeps all its
\* pending jobs: the two sweeps never cancel pending jobs of both.
C26_Original ==
    (\A p \in Handlers : Handling(p) /\ Created(p) # 0) =>
        \E p \in Handlers : Untouched(p)

====
